---- MODULE Spec2Model ----
(***************************************************************************)
(* systemgo: the start path of the Daemon of system/daemon.go (loadDeps,   *)
(* order, graph.traverse, Start and the unit goroutines it spawns) and the *)
(* bounded Log of system/log.go on top of bytes.Buffer.                    *)
(*                                                                         *)
(* A *Unit is identified with the name it was created under; the nil       *)
(* *Unit is the string "nil".                                              *)
(***************************************************************************)
EXTENDS Integers, Sequences, FiniteSets, TLC

VARIABLES
    files,      \* the unit definitions found on the search paths (environment)
    names,      \* the argument of Daemon.Start
    loaded,     \* keys of sys.loaded
    parsed,     \* keys of sys.parsed
    uload,      \* u.loaded of every unit created so far
    active,     \* keys of sys.active
    units,      \* the map returned by loadDeps (name -> *Unit or nil)
    ordering,   \* the slice returned by order
    err,        \* the error Start returns
    chain,      \* the unit names in the cycle error of order, in order
    pc,         \* position of the caller of Start
    idx,        \* position of the loop over ordering in Start
    task,       \* state of the goroutine "go u.Start()" of every unit
    buf,        \* l.buffer: [data, off, cap]
    pre,        \* l.buffer as it was when the last Write was called
    wb,         \* the argument of the last Write
    wn,         \* n returned by the last Write
    werr,       \* err returned by the last Write
    stream,     \* every byte given to Write so far, in order
    mem,        \* the bytes of the array behind l.buffer, as far as written
    reader,     \* l.Reader: nil, or a bytes.Reader over a slice of that array
    rres,       \* the last Read: size of b, bytes returned, err, content then
    pass,       \* the bytes returned since the Reader in use was created
    wrote,      \* a Write was called since the last Read
    prev,       \* before the last Read: whether the Read before it returned
                \* io.EOF, the bytes of its pass, a Write since
    sysUnits,   \* sys.units of the Daemon of log.go: name, alias or path -> *Unit
    unitTab,    \* the Units created so far; a *Unit is an index into it
    paths,      \* sys.paths
    fs,         \* what os.Open, Stat and Define find at each path (environment)
    mutex,      \* sys.mutex: NoCaller, or the caller that locked it
    cpc,        \* where each caller of the Daemon is in its operation
    tr,         \* each caller's transaction: type, names still to get, jobs
    last,       \* the last step of an operation: caller, operation, name,
                \* result, sys.units and the Units before it, mutex then
    nops,       \* operations begun so far
    nenv        \* changes of definitions and search paths so far

dvars == <<files, names, loaded, parsed, uload, active, units, ordering, err,
           chain, pc, idx, task>>
lvars == <<buf, pre, wb, wn, werr, stream, mem, reader, rres, pass, wrote, prev>>
rvars == <<sysUnits, unitTab, paths, fs, mutex, cpc, tr, last, nops, nenv>>
vars == <<files, names, loaded, parsed, uload, active, units, ordering, err,
          chain, pc, idx, task, buf, pre, wb, wn, werr, stream,
          mem, reader, rres, pass, wrote, prev,
          sysUnits, unitTab, paths, fs, mutex, cpc, tr, last, nops, nenv>>

----------------------------------------------------------------------------
(* Bounds *)

Names == {"a", "b", "c"}

\* most entries in the After and Before lists of all units together
MaxOrderEdges == 3
\* most entries in the Requires and Wants lists of all units together
MaxDeps == 2
\* most names in one Requires list
MaxList == 2
\* most names given to one Start
MaxRequest == 3
\* most names given to one Start when definitions may be defective
MaxDepRequest == 2
\* most definitions that are missing, unsupported, a directory or invalid
MaxDefects == 1

\* capacity the Log's buffer is created with (BUFFER_SIZE, 10000 in the
\* source, scaled down)
BUFFER_SIZE == 3
\* most bytes given to all Writes together
MaxStream == 8
\* longest argument of one Write: one byte more than the initial capacity
MaxWrite == BUFFER_SIZE + 1
\* most bytes given to all Writes together when the Log is also read
MaxReadStream == 5
\* longest slice given to one Read
MaxRead == 3

\* directories that can be search paths, and the names of unit files
Dirs == {"/etc", "/lib"}
Stems == {"a"}
\* callers that use the Daemon concurrently
Callers == {1, 2}
\* most operations begun on the Daemon by all callers together
MaxOps == 2
\* most changes of definitions and of the search paths
MaxEnv == 2
\* most names given to one Start, Stop, Isolate or Enable of that Daemon
MaxNames == 2

----------------------------------------------------------------------------
(* Helpers *)

Range(s) == {s[k] : k \in DOMAIN s}

\* sequences over S without repetition, of length lo..hi
ListsOf(S, lo, hi) ==
    UNION {{s \in [1..n -> S] : \A p, q \in 1..n : p # q => s[p] # s[q]} : n \in lo..hi}

Nil == "nil"

EmptyMap == [n \in {} |-> Nil]

----------------------------------------------------------------------------
(* Unit definitions on disk and their accessors *)

Statuses == {"ok", "invalid", "isdir", "missing", "unsupported"}

\* u.Requires(), u.Wants(), u.After(), u.Before(): the lists declared by the
\* definition, once it has been parsed
Requires(u) == IF files[u].status = "ok" THEN files[u].Requires ELSE <<>>
Wants(u) == IF files[u].status = "ok" THEN files[u].Wants ELSE {}
After(u) == IF files[u].status = "ok" THEN files[u].After ELSE {}
Before(u) == IF files[u].status = "ok" THEN files[u].Before ELSE {}

----------------------------------------------------------------------------
(* Daemon.Load, Daemon.Get: S is the daemon's [loaded, parsed, uload] *)

Load(S, name) ==
    LET st == files[name].status
        created == [S EXCEPT !.parsed = @ \cup {name}]
    IN  CASE st = "unsupported" -> [S |-> S, u |-> Nil, err |-> "ErrUnknownType"]
          [] st = "missing" -> [S |-> S, u |-> Nil, err |-> "ErrNotFound"]
          [] st = "isdir" -> [S |-> created, u |-> name, err |-> "ErrIsDir"]
          [] st = "invalid" ->
                [S |-> [created EXCEPT !.uload[name] = "error"],
                 u |-> name, err |-> "ErrDefine"]
          [] OTHER ->
                [S |-> [created EXCEPT !.uload[name] = "loaded",
                                       !.loaded = @ \cup {name}],
                 u |-> name, err |-> "nil"]

Get(S, name) ==
    IF name \in S.loaded THEN [S |-> S, u |-> name, err |-> "nil"]
    ELSE Load(S, name)

----------------------------------------------------------------------------
(* Daemon.loadDeps *)

\* the loop over u.Wants(): a unit not yet added is stored whatever Get
\* returned, its error dropped
RECURSIVE addWants(_, _, _)
addWants(S, us, ws) ==
    IF ws = {} THEN [S |-> S, units |-> us]
    ELSE LET w == CHOOSE x \in ws : TRUE
         IN  IF w \in DOMAIN us THEN addWants(S, us, ws \ {w})
             ELSE LET r == Get(S, w)
                  IN  addWants(r.S, us @@ (w :> r.u), ws \ {w})

RECURSIVE loadDepsLoop(_, _, _)
loadDepsLoop(S, queue, us) ==
    IF queue = <<>> THEN [S |-> S, units |-> us, err |-> "nil"]
    ELSE LET name == Head(queue)
         IN  IF name \in DOMAIN us THEN loadDepsLoop(S, Tail(queue), us)
             ELSE LET r == Get(S, name)
                  IN  IF r.err # "nil"
                      THEN [S |-> r.S, units |-> EmptyMap, err |-> "ErrLoadingDependency"]
                      ELSE LET w == addWants(r.S, us @@ (name :> r.u), Wants(r.u))
                           IN  loadDepsLoop(w.S, Tail(queue \o Requires(r.u)), w.units)

loadDeps(S, ns) == loadDepsLoop(S, ns, EmptyMap)

----------------------------------------------------------------------------
(* graph.traverse: g is [ordered, visited, ordering, failed, blank, chain] *)

NewGraph == [ordered |-> {}, visited |-> {}, ordering |-> <<>>,
             failed |-> FALSE, blank |-> FALSE, chain |-> <<>>]

\* g.before, built by the first half of order
beforeMap(us) ==
    [u \in DOMAIN us |->
        {d \in DOMAIN us : d \in After(u)} \cup {d \in DOMAIN us : u \in Before(d)}]

revisit_ignored(g, u) == g

\* an in-progress unit is met again: return errBlank
revisit(g, u) == [g EXCEPT !.failed = TRUE, !.blank = TRUE]

\* g.visited[u] = struct{}{}
enter(g, u) == [g EXCEPT !.visited = @ \cup {u}]

finish_prepend(g, u) ==
    [g EXCEPT !.visited = @ \ {u},
              !.ordering = IF u \in g.ordered THEN @ ELSE <<u>> \o @,
              !.ordered = @ \cup {u}]

\* delete(g.visited, u); append u to g.ordering unless ordered
finish(g, u) ==
    [g EXCEPT !.visited = @ \ {u},
              !.ordering = IF u \in g.ordered THEN @ ELSE Append(@, u),
              !.ordered = @ \cup {u}]

\* a traverse that keeps only the innermost name of the error
wrap_innermost(g, name) ==
    [g EXCEPT !.blank = FALSE,
              !.chain = IF g.blank THEN <<name>> ELSE @]

\* the error of a failed traverse(dep), wrapped with the name of dep
wrap(g, name) ==
    [g EXCEPT !.blank = FALSE,
              !.chain = IF g.blank THEN <<name>> ELSE <<name>> \o @]

\* every result traverse(u) can produce, over the iteration orders of the
\* map g.before[u]
RECURSIVE traverse(_, _, _), traverseDeps(_, _, _, _)
traverse(before, g, u) ==
    IF u \in g.ordered THEN {g}
    ELSE IF u \in g.visited THEN {revisit(g, u)}
    ELSE traverseDeps(before, enter(g, u), u, before[u])

traverseDeps(before, g, u, rest) ==
    IF rest = {} THEN {finish(g, u)}
    ELSE UNION {UNION {IF r.failed THEN {wrap(r, d)}
                       ELSE traverseDeps(before, r, u, rest \ {d})
                       : r \in traverse(before, g, d)}
                : d \in rest}

----------------------------------------------------------------------------
(* Daemon.order *)

\* the loop "for name, unit := range units { g.traverse(unit) }"
RECURSIVE orderLoop(_, _, _)
orderLoop(before, g, rest) ==
    IF rest = {} THEN {g}
    ELSE UNION {UNION {IF r.failed THEN {[r EXCEPT !.chain = <<n>> \o @]}
                       ELSE orderLoop(before, r, rest \ {n})
                       : r \in traverse(before, g, n)}
                : n \in rest}

\* unit.After() on a nil *Unit dereferences nil.  (The loop also fills
\* unit.requires, which nothing on the start path reads.)
orderPanics(us) == \E n \in DOMAIN us : us[n] = Nil

order(us) == orderLoop(beforeMap(us), NewGraph, DOMAIN us)

----------------------------------------------------------------------------
(* Daemon.Start *)

Sys == [loaded |-> loaded, parsed |-> parsed, uload |-> uload]

Start ==
    /\ pc = "idle"
    /\ LET ld == loadDeps(Sys, names)
       IN  /\ loaded' = ld.S.loaded
           /\ parsed' = ld.S.parsed
           /\ uload' = ld.S.uload
           /\ units' = ld.units
           /\ IF ld.err # "nil"
              THEN /\ err' = ld.err
                   /\ pc' = "returned"
                   /\ UNCHANGED <<ordering, idx, chain>>
              ELSE IF orderPanics(ld.units)
              THEN /\ pc' = "panic"
                   /\ UNCHANGED <<err, ordering, idx, chain>>
              ELSE \E g \in order(ld.units) :
                       IF g.failed
                       THEN /\ err' = "ErrDependencyCycle"
                            /\ chain' = g.chain
                            /\ pc' = "returned"
                            /\ UNCHANGED <<ordering, idx>>
                       ELSE /\ err' = "nil"
                            /\ ordering' = g.ordering
                            /\ idx' = 1
                            /\ pc' = IF g.ordering = <<>> THEN "returned" ELSE "loop"
                            /\ UNCHANGED chain
    /\ UNCHANGED <<files, names, active, task>>
    /\ UNCHANGED lvars
    /\ UNCHANGED rvars

\* one iteration of "for _, u := range ordering": sys.active[name] = u; go u.Start()
StartLoop ==
    /\ pc = "loop"
    /\ LET u == ordering[idx]
       IN  /\ active' = active \cup {u}
           /\ task' = [task EXCEPT ![u] = "spawned"]
    /\ idx' = idx + 1
    /\ pc' = IF idx = Len(ordering) THEN "returned" ELSE "loop"
    /\ UNCHANGED <<files, names, loaded, parsed, uload, units, ordering, err,
                   chain>>
    /\ UNCHANGED lvars
    /\ UNCHANGED rvars

\* the goroutine of u is scheduled and enters u.Start()
UnitStartBegin(u) ==
    /\ task[u] = "spawned"
    /\ task' = [task EXCEPT ![u] = "running"]
    /\ UNCHANGED <<files, names, loaded, parsed, uload, active, units, ordering,
                   err, chain, pc, idx>>
    /\ UNCHANGED lvars
    /\ UNCHANGED rvars

\* u.Start() returns; its error is dropped by the go statement
UnitStartEnd(u) ==
    /\ task[u] = "running"
    /\ \E outcome \in {"started", "failed"} : task' = [task EXCEPT ![u] = outcome]
    /\ UNCHANGED <<files, names, loaded, parsed, uload, active, units, ordering,
                   err, chain, pc, idx>>
    /\ UNCHANGED lvars
    /\ UNCHANGED rvars

----------------------------------------------------------------------------
(* bytes.Buffer as Log uses it: B is [data, off, cap], data the unread     *)
(* bytes buf[off:], cap the capacity of buf.  Growth is that of the        *)
(* standard library up to Go 1.19: slide when the data fits in half the    *)
(* capacity, else reallocate to 2*cap + n.                                 *)

NL == "\n"
Bytes == {NL, "x"}

ByteStrings(k) == UNION {[1..n -> Bytes] : n \in 0..k}

Min(p, q) == IF p <= q THEN p ELSE q

DropFirst(s, k) == SubSeq(s, k + 1, Len(s))

\* grow(n): make room for n more bytes
bufferGrow(B, n) ==
    LET m == Len(B.data)
        B1 == IF m = 0 /\ B.off # 0 THEN [B EXCEPT !.off = 0] ELSE B
    IN  IF B1.off + m + n > B1.cap
        THEN IF m + n <= B1.cap \div 2
             THEN [B1 EXCEPT !.off = 0]
             ELSE [B1 EXCEPT !.off = 0, !.cap = 2 * B1.cap + n]
        ELSE B1

\* l.buffer.Write(p): never fails
bufferWrite(B, p) == [bufferGrow(B, Len(p)) EXCEPT !.data = B.data \o p]

\* l.buffer.Reset()
bufferReset(B) == [B EXCEPT !.data = <<>>, !.off = 0]

\* l.buffer.Read(make([]byte, k)), k > 0
bufferRead(B, k) ==
    IF B.data = <<>>
    THEN [buf |-> bufferReset(B), n |-> 0, err |-> "EOF"]
    ELSE LET n == Min(k, Len(B.data))
         IN  [buf |-> [B EXCEPT !.data = DropFirst(@, n), !.off = @ + n],
              n |-> n, err |-> "nil"]

\* l.buffer.ReadString('\n'): consume through the first delimiter, or
\* everything and io.EOF when there is none
bufferReadString(B) ==
    IF \E k \in DOMAIN B.data : B.data[k] = NL
    THEN LET k == CHOOSE q \in DOMAIN B.data :
                      B.data[q] = NL /\ \A r \in 1..(q - 1) : B.data[r] # NL
         IN  [buf |-> [B EXCEPT !.data = DropFirst(@, k), !.off = @ + k], err |-> "nil"]
    ELSE [buf |-> [B EXCEPT !.data = <<>>, !.off = @ + Len(B.data)], err |-> "EOF"]

----------------------------------------------------------------------------
(* Log.Write *)

trailing_head(b, c) == SubSeq(b, 1, c)

\* b[len(b)-l.Cap():]
trailing(b, c) == SubSeq(b, Len(b) - c + 1, Len(b))

\* the deferred function: when the body returned no error, drop the head
\* through the next '\n' and return what ReadString returned
trimHead(r) ==
    IF r.err = "nil"
    THEN LET rs == bufferReadString(r.buf)
         IN  [buf |-> rs.buf, n |-> r.n, err |-> rs.err]
    ELSE r

LogWrite(B, b) ==
    IF Len(B.data) + Len(b) <= B.cap
    THEN [buf |-> bufferWrite(B, b), n |-> Len(b), err |-> "nil"]
    ELSE IF Len(b) >= B.cap
    THEN trimHead([buf |-> bufferWrite(bufferReset(B), trailing(b, B.cap)),
                   n |-> B.cap, err |-> "nil"])
    ELSE LET rd == bufferRead(B, Len(b) - B.cap + Len(B.data))
         IN  IF rd.err # "nil"
             THEN trimHead([buf |-> rd.buf, n |-> 0, err |-> rd.err])
             ELSE trimHead([buf |-> bufferWrite(rd.buf, b), n |-> Len(b), err |-> "nil"])

\* the array after a Write: a reallocated array holds the content alone,
\* the old array holds it where the buffer's slice now ends
memAfterWrite(m, B, B2, b) ==
    LET k == Len(b) - B.cap + Len(B.data)
        content == IF Len(B.data) + Len(b) <= B.cap THEN B.data \o b
                   ELSE IF Len(b) >= B.cap THEN trailing(b, B.cap)
                   ELSE DropFirst(B.data, k) \o b
        end == B2.off + Len(B2.data)
        start == end - Len(content)
    IN  IF B2.cap # B.cap THEN content
        ELSE [j \in 1..(IF end > Len(m) THEN end ELSE Len(m)) |->
                 IF j > start /\ j <= end THEN content[j - start] ELSE m[j]]

\* what a Reader sees after a Write: its slice still aliases the array
\* unless the buffer moved to a new one
readerAfterWrite(r, m2, realloc) ==
    IF r.nil \/ ~r.live THEN r
    ELSE IF realloc THEN [r EXCEPT !.live = FALSE]
    ELSE [r EXCEPT !.s = SubSeq(m2, r.lo + 1, r.hi)]

Write(b) ==
    /\ Len(stream) + Len(b) <= MaxStream
    /\ LET r == LogWrite(buf, b)
           m2 == memAfterWrite(mem, buf, r.buf, b)
       IN  /\ buf' = r.buf
           /\ wn' = r.n
           /\ werr' = r.err
           /\ mem' = m2
           /\ reader' = readerAfterWrite(reader, m2, r.buf.cap # buf.cap)
    /\ pre' = buf
    /\ wb' = b
    /\ stream' = stream \o b
    /\ wrote' = TRUE
    /\ UNCHANGED <<rres, pass, prev>>
    /\ UNCHANGED dvars
    /\ UNCHANGED rvars

----------------------------------------------------------------------------
(* Log.Read, for slices b of length k >= 1 *)

\* l.Reader == nil
NilReader == [nil |-> TRUE, s |-> <<>>, i |-> 0, lo |-> 0, hi |-> 0, live |-> FALSE]

\* bytes.NewReader(l.buffer.Bytes()): s the bytes of the slice, i the read
\* position, [lo, hi) the place of the slice in the buffer's array
newReader(B) ==
    [nil |-> FALSE, s |-> B.data, i |-> 0, lo |-> B.off, hi |-> B.off + Len(B.data),
     live |-> TRUE]

\* l.Reader.Read(b): [rd, out, err]
readerRead(r, k) ==
    IF r.i >= Len(r.s) THEN [rd |-> r, out |-> <<>>, err |-> "EOF"]
    ELSE LET n == Min(k, Len(r.s) - r.i)
         IN  [rd |-> [r EXCEPT !.i = @ + n], out |-> SubSeq(r.s, r.i + 1, r.i + n),
              err |-> "nil"]

reset_never(r) == r

\* the deferred function: a Read that returned no error and left nothing
\* unread returns io.EOF and drops the Reader
resetAtEnd(r) ==
    IF r.err = "nil" /\ r.rd.i = Len(r.rd.s)
    THEN [r EXCEPT !.err = "EOF", !.rd = NilReader]
    ELSE r

LogRead(r, B, k) == resetAtEnd(readerRead(IF r.nil THEN newReader(B) ELSE r, k))

Read(k) ==
    /\ LET r == LogRead(reader, buf, k)
       IN  /\ reader' = r.rd
           /\ rres' = [k |-> k, out |-> r.out, err |-> r.err, data |-> buf.data]
           /\ pass' = IF reader.nil THEN r.out ELSE pass \o r.out
    /\ prev' = [eof |-> rres.err = "EOF", pass |-> pass, wrote |-> wrote]
    /\ wrote' = FALSE
    /\ UNCHANGED <<buf, pre, wb, wn, werr, stream, mem>>
    /\ UNCHANGED dvars
    /\ UNCHANGED rvars

----------------------------------------------------------------------------
(* The Daemon that keeps one map of units (sys.units) *)

\* A file name is <<directory, stem, extension>>; the directory is "" for a
\* relative name and the extension is "" for a name without one.
Exts == {".service", ".target", ".mount", ""}
SupportedExts == {".service", ".target"}
\* the places where a file can be, and the names callers ask for: every
\* relative name and the absolute names of the .service files
FilePaths == Dirs \X Stems \X (SupportedExts \cup {".mount"})
UnitNames == ({""} \X Stems \X Exts) \cup (Dirs \X Stems \X {".service"})
NoName == <<"", "", "">>

supported == [e \in {".service", ".target", ".mount", ".socket"} |->
                 e \in {".service", ".target"}]

SupportedSuffix(suffix) == IF suffix \in DOMAIN supported THEN supported[suffix] ELSE FALSE

\* filepath.Ext(filename) is the third component
Supported(filename) == SupportedSuffix(filename[3])

IsAbs(name) == name[1] # ""
Join(path, name) == <<path, name[2], name[3]>>
TrimSuffix(name) == <<name[1], name[2], "">>

\* what is found at a path: nothing, a file that cannot be opened, a
\* directory, a definition that parses, one that fails with a plain error,
\* one that fails with a MultiError of two entries
FileStates == {"absent", "unreadable", "dir", "good", "bad", "badmulti"}
Open(F, path) == IF path \in DOMAIN F THEN F[path] ELSE "absent"

NoCaller == 0
NoUnit == 0

Put(m, k, v) == [x \in DOMAIN m \cup {k} |-> IF x = k THEN v ELSE m[x]]

\* a Unit as NewUnit leaves it
NewUnit(v) ==
    [name |-> NoName, path |-> NoName, load |-> "Unloaded", active |-> "Inactive",
     log |-> <<>>, kind |-> v]

IsLoaded(u) == u.load = "Loaded"

\* The registry operations take and return R = [m, t, w]: sys.units, the
\* Units, and whether an assignment to sys.units was executed.
newUnit(R, name, v) ==
    LET u == Len(R.t) + 1
        m1 == Put(R.m, name, u)
    IN  [m |-> IF name[3] = ".service" THEN Put(m1, TrimSuffix(name), u) ELSE m1,
         t |-> Append(R.t, [NewUnit(v) EXCEPT !.name = name]),
         w |-> TRUE]

Unit(R, name) ==
    IF name \in DOMAIN R.m THEN [u |-> R.m[name], err |-> "nil"]
    ELSE [u |-> NoUnit, err |-> "ErrNotFound"]

\* every *Unit in sys.units, once
Units(R) == {R.m[k] : k \in DOMAIN R.m}

Supervise_overwrite(R, name, v) ==
    LET R2 == newUnit(R, name, v)
    IN  [R |-> R2, u |-> R2.m[name], err |-> "nil"]

Supervise(R, name, v) ==
    IF Unit(R, name).err = "nil" THEN [R |-> R, u |-> NoUnit, err |-> "ErrExists"]
    ELSE LET R2 == newUnit(R, name, v)
         IN  [R |-> R2, u |-> R2.m[name], err |-> "nil"]

candidates(name, ps) ==
    IF IsAbs(name) THEN <<name>> ELSE [i \in 1..Len(ps) |-> Join(ps[i], name)]

\* what Define makes of the file and what load writes to u.Log for it
DefineErr(st) == CASE st = "good" -> "nil" [] st = "bad" -> "ParseError"
                   [] st = "badmulti" -> "MultiError"
DefineLog(st) == CASE st = "good" -> <<>>
                   [] st = "bad" -> <<"Error parsing definition: ParseError">>
                   [] st = "badmulti" -> <<"Definition is invalid:", "e1", "e2">>

RECURSIVE loadLoop(_, _, _, _)
loadLoop(R, name, cand, F) ==
    IF cand = <<>> THEN [R |-> R, u |-> NoUnit, err |-> "ErrNotFound"]
    ELSE
    LET path == Head(cand)
        st == Open(F, path)
    IN  IF st = "absent" THEN loadLoop(R, name, Tail(cand), F)
        ELSE IF st = "unreadable" THEN [R |-> R, u |-> NoUnit, err |-> "EACCES"]
        ELSE
        LET R1 == IF Unit(R, name).err # "nil" THEN newUnit(R, name, name[3]) ELSE R
            u == R1.m[name]
            R2 == [m |-> Put(R1.m, path, u),
                   t |-> [R1.t EXCEPT ![u].path = path],
                   w |-> TRUE]
        IN  IF st = "dir"
            THEN [R |-> [R2 EXCEPT !.t[u].log = Append(@, "ErrIsDir")],
                  u |-> u, err |-> "ErrIsDir"]
            ELSE IF DefineErr(st) # "nil"
            THEN [R |-> [R2 EXCEPT !.t[u].log = @ \o DefineLog(st),
                                   !.t[u].load = "Error"],
                  u |-> u, err |-> DefineErr(st)]
            ELSE [R |-> [R2 EXCEPT !.t[u].load = "Loaded"], u |-> u, err |-> "nil"]

load_unchecked(R, name, ps, F) == loadLoop(R, name, candidates(name, ps), F)

load(R, name, ps, F) ==
    IF ~Supported(name) THEN [R |-> R, u |-> NoUnit, err |-> "ErrUnknownType"]
    ELSE loadLoop(R, name, candidates(name, ps), F)

sysGet_always(R, name, ps, F) == load(R, name, ps, F)

sysGet(R, name, ps, F) ==
    LET f == Unit(R, name)
    IN  IF f.err # "nil" \/ ~IsLoaded(R.t[f.u]) THEN load(R, name, ps, F)
        ELSE [R |-> R, u |-> f.u, err |-> "nil"]

\* transaction.add for a unit that declares no dependencies: a new job is
\* inserted, a job of the same type is kept, a job of another type conflicts
NoJobs == [u \in {} |-> "none"]
add(jobs, typ, u) ==
    IF u \notin DOMAIN jobs THEN [jobs |-> Put(jobs, u, typ), err |-> "nil"]
    ELSE IF jobs[u] = typ THEN [jobs |-> jobs, err |-> "nil"]
    ELSE [jobs |-> jobs, err |-> "ErrConflict"]

JobTypes == [Start |-> "start", Stop |-> "stop", Isolate |-> "start"]

NoTr == [op |-> "none", typ |-> "none", names |-> <<>>, jobs |-> NoJobs]
Reg == [m |-> sysUnits, t |-> unitTab, w |-> FALSE]

\* the record of a step of caller p
Step(p, op, name, u, e, w) ==
    [p |-> p, op |-> op, name |-> name, u |-> u, err |-> e, w |-> w,
     m0 |-> sysUnits, t0 |-> unitTab,
     j0 |-> IF p = NoCaller THEN NoJobs ELSE tr[p].jobs, held |-> mutex]

Begins(p) == cpc[p] = "idle" /\ nops < MaxOps /\ nops' = nops + 1

\* sys.Get called from outside, by itself or as the first statement of
\* sys.IsActive or sys.StatusOf, which then only read the unit returned
GetOp(p, name) ==
    /\ Begins(p)
    /\ LET g == sysGet(Reg, name, paths, fs)
       IN  /\ sysUnits' = g.R.m
           /\ unitTab' = g.R.t
           /\ last' = Step(p, "Get", name, g.u, g.err, g.R.w)
    /\ UNCHANGED <<paths, fs, mutex, cpc, tr, nenv>>
    /\ UNCHANGED <<dvars, lvars>>

SuperviseOp(p, name) ==
    /\ Begins(p)
    /\ LET g == Supervise(Reg, name, "supervised")
       IN  /\ sysUnits' = g.R.m
           /\ unitTab' = g.R.t
           /\ last' = Step(p, "Supervise", name, g.u, g.err, g.R.w)
    /\ UNCHANGED <<paths, fs, mutex, cpc, tr, nenv>>
    /\ UNCHANGED <<dvars, lvars>>

\* sys.Enable: getAndExecute is entered; its loop runs in getAndExecute steps
Enable(p, ns) ==
    /\ Begins(p)
    /\ cpc' = [cpc EXCEPT ![p] = "execute"]
    /\ tr' = [tr EXCEPT ![p] = [NoTr EXCEPT !.op = "Enable", !.names = ns]]
    /\ last' = Step(p, "Enable", NoName, NoUnit, "nil", FALSE)
    /\ UNCHANGED <<sysUnits, unitTab, paths, fs, mutex, nenv>>
    /\ UNCHANGED <<dvars, lvars>>

\* one turn of the loop of getAndExecute: fn(sys.Get(name))
getAndExecute(p) ==
    /\ cpc[p] = "execute"
    /\ LET name == Head(tr[p].names)
           g == sysGet(Reg, name, paths, fs)
           done == g.err # "nil" \/ Len(tr[p].names) = 1
       IN  /\ sysUnits' = g.R.m
           /\ unitTab' = g.R.t
           /\ last' = Step(p, "getAndExecute", name, g.u, g.err, g.R.w)
           /\ cpc' = [cpc EXCEPT ![p] = IF done THEN "idle" ELSE "execute"]
           /\ tr' = [tr EXCEPT ![p] = IF done THEN NoTr
                                            ELSE [@ EXCEPT !.names = Tail(@)]]
    /\ UNCHANGED <<paths, fs, mutex, nops, nenv>>
    /\ UNCHANGED <<dvars, lvars>>

\* sys.Start, Stop, Isolate, Restart, Reload enter sys.newTransaction, which
\* locks the mutex
newTransaction(p, op, ns) ==
    /\ Begins(p)
    /\ mutex = NoCaller
    /\ mutex' = p
    /\ cpc' = [cpc EXCEPT ![p] = "newTransaction"]
    /\ tr' = [tr EXCEPT ![p] = [op |-> op, typ |-> JobTypes[op], names |-> ns,
                                jobs |-> NoJobs]]
    /\ last' = Step(p, "Lock", NoName, NoUnit, "nil", FALSE)
    /\ UNCHANGED <<sysUnits, unitTab, paths, fs, nenv>>
    /\ UNCHANGED <<dvars, lvars>>

\* one turn of the loop of newTransaction: sys.Get(name) and tr.add; on an
\* error, and after the last name, newTransaction returns and the deferred
\* Unlock runs; the caller then returns the error, goes on to the loop of
\* Isolate, or calls tr.Run
newTransactionLoop(p) ==
    /\ cpc[p] = "newTransaction"
    /\ LET name == Head(tr[p].names)
           g == sysGet(Reg, name, paths, fs)
           a == IF g.err = "nil" THEN add(tr[p].jobs, tr[p].typ, g.u)
                ELSE [jobs |-> tr[p].jobs, err |-> g.err]
           next == IF a.err # "nil" THEN "idle"
                   ELSE IF Len(tr[p].names) > 1 THEN "newTransaction"
                   ELSE IF tr[p].op = "Isolate" THEN "Isolate"
                   ELSE "Run"
       IN  /\ sysUnits' = g.R.m
           /\ unitTab' = g.R.t
           /\ last' = Step(p, "newTransaction", name, g.u, a.err, g.R.w)
           /\ cpc' = [cpc EXCEPT ![p] = next]
           /\ mutex' = IF next = "newTransaction" THEN mutex ELSE NoCaller
           /\ tr' = [tr EXCEPT ![p] = IF next = "idle" THEN NoTr
                                      ELSE [@ EXCEPT !.names = Tail(@), !.jobs = a.jobs]]
    /\ UNCHANGED <<paths, fs, nops, nenv>>
    /\ UNCHANGED <<dvars, lvars>>

\* the loop of Isolate over sys.Units(): a stop job for every unit that has
\* no job in tr.unmerged
RECURSIVE addStops(_, _)
addStops(jobs, us) ==
    IF us = {} THEN [jobs |-> jobs, err |-> "nil"]
    ELSE LET u == CHOOSE x \in us : TRUE
             a == IF u \in DOMAIN jobs THEN [jobs |-> jobs, err |-> "nil"]
                  ELSE add(jobs, "stop", u)
         IN  IF a.err # "nil" THEN a ELSE addStops(a.jobs, us \ {u})

Isolate(p) ==
    /\ cpc[p] = "Isolate"
    /\ LET a == addStops(tr[p].jobs, Units(Reg))
       IN  /\ last' = Step(p, "Isolate", NoName, NoUnit, a.err, FALSE)
           /\ cpc' = [cpc EXCEPT ![p] = IF a.err = "nil" THEN "Run" ELSE "idle"]
           /\ tr' = [tr EXCEPT ![p] = IF a.err = "nil" THEN [@ EXCEPT !.jobs = a.jobs]
                                      ELSE NoTr]
    /\ UNCHANGED <<sysUnits, unitTab, paths, fs, mutex, nops, nenv>>
    /\ UNCHANGED <<dvars, lvars>>

\* tr.Run returns: every job has been executed; a start or restart leaves
\* its unit Active or, having failed, Failed; a stop leaves it Inactive
Run(p) ==
    /\ cpc[p] = "Run"
    /\ \E failed \in SUBSET {u \in DOMAIN tr[p].jobs : tr[p].jobs[u] \in {"start", "restart"}} :
          /\ unitTab' = [u \in DOMAIN unitTab |->
                IF u \notin DOMAIN tr[p].jobs \/ tr[p].jobs[u] = "reload" THEN unitTab[u]
                ELSE [unitTab[u] EXCEPT !.active =
                         IF tr[p].jobs[u] = "stop" THEN "Inactive"
                         ELSE IF u \in failed THEN "Failed" ELSE "Active"]]
          /\ last' = Step(p, "Run", NoName, NoUnit,
                          IF failed = {} THEN "nil" ELSE "ErrFailed", FALSE)
    /\ cpc' = [cpc EXCEPT ![p] = "idle"]
    /\ tr' = [tr EXCEPT ![p] = NoTr]
    /\ UNCHANGED <<sysUnits, paths, fs, mutex, nops, nenv>>
    /\ UNCHANGED <<dvars, lvars>>

SetPaths(p, ps) ==
    /\ cpc[p] = "idle"
    /\ nenv < MaxEnv
    /\ mutex = NoCaller
    /\ ps # paths
    /\ paths' = ps
    /\ nenv' = nenv + 1
    /\ last' = Step(p, "SetPaths", NoName, NoUnit, "nil", FALSE)
    /\ UNCHANGED <<sysUnits, unitTab, fs, mutex, cpc, tr, nops>>
    /\ UNCHANGED <<dvars, lvars>>

\* between two operations the environment puts, changes or removes what is
\* at a path
SetFile(path, st) ==
    /\ \A p \in Callers : cpc[p] = "idle"
    /\ nenv < MaxEnv
    /\ fs[path] # st
    /\ fs' = [fs EXCEPT ![path] = st]
    /\ nenv' = nenv + 1
    /\ last' = Step(NoCaller, "SetFile", path, NoUnit, "nil", FALSE)
    /\ UNCHANGED <<sysUnits, unitTab, paths, mutex, cpc, tr, nops>>
    /\ UNCHANGED <<dvars, lvars>>

----------------------------------------------------------------------------
(* Initial states *)

NoFile == [status |-> "ok", Requires |-> <<>>, Wants |-> {}, After |-> {}, Before |-> {}]

Sum(f) ==
    LET D == DOMAIN f
        RECURSIVE S(_)
        S(X) == IF X = {} THEN 0 ELSE LET x == CHOOSE y \in X : TRUE IN f[x] + S(X \ {x})
    IN  S(D)

\* NewLog: bytes.NewBuffer(make([]byte, 0, BUFFER_SIZE))
LogInit ==
    /\ buf = [data |-> <<>>, off |-> 0, cap |-> BUFFER_SIZE]
    /\ pre = [data |-> <<>>, off |-> 0, cap |-> BUFFER_SIZE]
    /\ wb = <<>>
    /\ wn = 0
    /\ werr = "nil"
    /\ stream = <<>>
    /\ mem = <<>>
    /\ reader = NilReader
    /\ rres = [k |-> 0, out |-> <<>>, err |-> "nil", data |-> <<>>]
    /\ pass = <<>>
    /\ wrote = FALSE
    /\ prev = [eof |-> FALSE, pass |-> <<>>, wrote |-> FALSE]

DEFAULT_PATHS == <<"/etc", "/lib">>
NoStep ==
    [p |-> NoCaller, op |-> "none", name |-> NoName, u |-> NoUnit, err |-> "nil",
     w |-> FALSE, m0 |-> <<>>, t0 |-> <<>>, j0 |-> NoJobs, held |-> NoCaller]

\* New: no units, the default paths, the mutex unlocked
New ==
    /\ sysUnits = <<>>
    /\ unitTab = <<>>
    /\ paths = DEFAULT_PATHS
    /\ mutex = NoCaller
    /\ cpc = [p \in Callers |-> "idle"]
    /\ tr = [p \in Callers |-> NoTr]
    /\ last = NoStep
    /\ nops = 0
    /\ nenv = 0

RegistryInit ==
    /\ New
    /\ fs = [f \in FilePaths |-> "absent"]

DaemonInit ==
    /\ loaded = {}
    /\ parsed = {}
    /\ uload = [n \in Names |-> "unloaded"]
    /\ active = {}
    /\ units = EmptyMap
    /\ ordering = <<>>
    /\ err = "nil"
    /\ chain = <<>>
    /\ pc = "idle"
    /\ idx = 0
    /\ task = [n \in Names |-> "none"]

\* every definition parses; only After and Before are declared
InitOrder ==
    /\ \E af \in [Names -> SUBSET Names], bf \in [Names -> SUBSET Names] :
           /\ Sum([n \in Names |-> Cardinality(af[n]) + Cardinality(bf[n])]) <= MaxOrderEdges
           /\ files = [n \in Names |-> [NoFile EXCEPT !.After = af[n], !.Before = bf[n]]]
    /\ names \in ListsOf(Names, 1, MaxRequest)
    /\ DaemonInit
    /\ LogInit
    /\ RegistryInit

\* some definitions are defective; Requires and Wants are declared
InitDeps ==
    /\ \E st \in {f \in [Names -> Statuses] :
                     Cardinality({n \in Names : f[n] # "ok"}) <= MaxDefects} :
       \E dp \in {d \in [rq : [Names -> ListsOf(Names, 0, MaxList)],
                          wt : [Names -> SUBSET Names]] :
                     Sum([n \in Names |-> Len(d.rq[n]) + Cardinality(d.wt[n])]) <= MaxDeps} :
           files = [n \in Names |->
                       [NoFile EXCEPT !.status = st[n], !.Requires = dp.rq[n],
                                      !.Wants = dp.wt[n]]]
    /\ names \in ListsOf(Names, 1, MaxDepRequest)
    /\ DaemonInit
    /\ LogInit
    /\ RegistryInit

DaemonNext ==
    \/ Start
    \/ StartLoop
    \/ \E u \in Names : UnitStartBegin(u)
    \/ \E u \in Names : UnitStartEnd(u)

SpecOrder == InitOrder /\ [][DaemonNext]_vars

SpecDeps == InitDeps /\ [][DaemonNext]_vars

\* a Log of its own, written to by any caller
InitLog ==
    /\ files = [n \in Names |-> NoFile]
    /\ names = <<>>
    /\ DaemonInit
    /\ LogInit
    /\ RegistryInit

LogNext == \E b \in ByteStrings(MaxWrite) : Write(b)

SpecLog == InitLog /\ [][LogNext]_vars

\* a Log that is written to and read
LogReadNext ==
    \/ \E b \in ByteStrings(MaxWrite) : Len(stream) + Len(b) <= MaxReadStream /\ Write(b)
    \/ \E k \in 1..MaxRead : Read(k)

SpecLogRead == InitLog /\ [][LogReadNext]_vars

\* the Daemon of sys.units looks units up and loads them, one call at a
\* time, while definitions and search paths change between the calls
InitLoad ==
    /\ files = [n \in Names |-> NoFile]
    /\ names = <<>>
    /\ DaemonInit
    /\ LogInit
    /\ RegistryInit

PathLists == {<<"/etc", "/lib">>, <<"/lib", "/etc">>, <<"/lib">>}

\* a .service file goes through every state; the other files are there,
\* with a definition that parses, or not
FileStatesOf(f) == IF f[3] = ".service" THEN FileStates ELSE {"absent", "good"}

Environment == \E f \in FilePaths : \E st \in FileStatesOf(f) : SetFile(f, st)

LoadNext ==
    \/ \E name \in UnitNames : GetOp(1, name)
    \/ \E name \in UnitNames : SuperviseOp(1, name)
    \/ \E ps \in PathLists : SetPaths(1, ps)
    \/ Environment

SpecLoad == InitLoad /\ [][LoadNext]_vars

\* the Daemon of sys.units runs transactions, one call at a time; the
\* definitions that are there parse
InitRegistry ==
    /\ files = [n \in Names |-> NoFile]
    /\ names = <<>>
    /\ DaemonInit
    /\ LogInit
    /\ New
    /\ fs \in [FilePaths -> {"absent", "good"}]

\* the names given to one operation on several units: relative names, with
\* a supported extension or none
NameLists == ListsOf({""} \X Stems \X (SupportedExts \cup {""}), 1, MaxNames)

RegistryNext ==
    \/ \E name \in UnitNames : GetOp(1, name)
    \/ \E name \in UnitNames : SuperviseOp(1, name)
    \/ \E ns \in NameLists, op \in {"Start", "Isolate"} : newTransaction(1, op, ns)
    \/ newTransactionLoop(1)
    \/ Isolate(1)
    \/ Run(1)

SpecRegistry == InitRegistry /\ [][RegistryNext]_vars

\* the Daemon of sys.units is used by several callers at once; every
\* definition is there and parses
InitConcurrent ==
    /\ files = [n \in Names |-> NoFile]
    /\ names = <<>>
    /\ DaemonInit
    /\ LogInit
    /\ New
    /\ fs = [f \in FilePaths |-> "good"]

ConcurrentStep(p) ==
    \/ \E name \in UnitNames : GetOp(p, name)
    \/ \E name \in UnitNames : SuperviseOp(p, name)
    \/ \E ns \in NameLists : Enable(p, ns)
    \/ getAndExecute(p)
    \/ \E ns \in NameLists, op \in {"Start", "Stop", "Isolate"} : newTransaction(p, op, ns)
    \/ newTransactionLoop(p)
    \/ Isolate(p)
    \/ Run(p)

ConcurrentNext == \E p \in Callers : ConcurrentStep(p)

SpecConcurrent == InitConcurrent /\ [][ConcurrentNext]_vars

----------------------------------------------------------------------------
(* The ordering graph as declared by the definitions *)

\* "u before v" is declared: u lists v in Before, or v lists u in After
Edge(u, v) ==
    /\ u \in DOMAIN units
    /\ v \in DOMAIN units
    /\ (v \in files[u].Before \/ u \in files[v].After)

Successors(u) == {v \in DOMAIN units : Edge(u, v)}

\* the units that must run after u, directly or transitively
ReachableFrom(u) ==
    LET R[k \in 0..Cardinality(Names)] ==
            IF k = 0 THEN Successors(u)
            ELSE R[k - 1] \cup UNION {Successors(w) : w \in R[k - 1]}
    IN  R[Cardinality(Names)]

HasCycle == \E u \in DOMAIN units : u \in ReachableFrom(u)

\* order() was called on a map of units and returned
OrderReturned == pc \in {"loop", "returned"} /\ err # "ErrLoadingDependency"

Pos(u) == CHOOSE k \in DOMAIN ordering : ordering[k] = u

Begun(u) == task[u] \in {"running", "started", "failed"}
Terminal(u) == task[u] \in {"started", "failed"}

\* C1: when the after/before declarations restricted to the units of the
\* transaction are acyclic, order() returns no error and a sequence that
\* holds u before v for every declared edge "u before v".
C1_OrderRespectsEdges ==
    (OrderReturned /\ ~HasCycle) =>
        /\ err = "nil"
        /\ \A u, v \in DOMAIN units :
               Edge(u, v) =>
                   /\ u \in Range(ordering)
                   /\ v \in Range(ordering)
                   /\ Pos(u) < Pos(v)

\* an acyclic chain over three units, declared once with Before and once
\* with After, has been ordered
C1_Witness ==
    /\ OrderReturned
    /\ ~HasCycle
    /\ Cardinality(DOMAIN units) = 3
    /\ \E u, v, w \in DOMAIN units :
           /\ Cardinality({u, v, w}) = 3
           /\ v \in files[u].Before
           /\ v \in files[w].After
    /\ Len(ordering) = 3

\* C2: order() fails with the dependency-cycle error exactly when the
\* declared graph restricted to the units of the transaction has a cycle,
\* and when Start fails no unit is started or marked active.
C2_CycleIffError ==
    /\ OrderReturned => ((err = "ErrDependencyCycle") <=> HasCycle)
    /\ (pc = "returned" /\ err # "nil") =>
           /\ \A u \in Names : task[u] = "none"
           /\ active = {}

\* Start has returned the cycle error for two units that are after each other
C2_Witness ==
    /\ pc = "returned"
    /\ err = "ErrDependencyCycle"
    /\ \E u, v \in DOMAIN units : u # v /\ v \in files[u].After /\ u \in files[v].After
    /\ \A u \in Names : task[u] = "none"

\* C3: a unit's Start begins only after the Start of every unit that must
\* run before it, directly or transitively, has reached a terminal outcome.
C3_PredecessorTerminalFirst ==
    \A u, v \in DOMAIN units :
        (u # v /\ v \in ReachableFrom(u) /\ Begun(v)) => Terminal(u)

----------------------------------------------------------------------------
(* Dependencies as declared by the definitions *)

Defective(u) == files[u].status # "ok"

RequiredBy(S) == UNION {Range(files[u].Requires) : u \in {x \in S : ~Defective(x)}}

\* the units the request requires, directly or transitively
RequiredClosure ==
    LET R[k \in 0..Cardinality(Names)] ==
            IF k = 0 THEN RequiredBy(Range(names))
            ELSE R[k - 1] \cup RequiredBy(R[k - 1])
    IN  R[Cardinality(Names)]

WantedByRequest == UNION {files[u].Wants : u \in {x \in Range(names) : ~Defective(x)}}

NoUnitStarted == \A u \in Names : task[u] = "none"

\* C4: when a requested unit requires, directly or transitively, a unit
\* that cannot be resolved or loaded, Start returns the dependency error
\* and starts no unit.
C4_RequiredFailureAborts ==
    (pc # "idle" /\ \E y \in RequiredClosure : Defective(y)) =>
        /\ pc = "returned"
        /\ err = "ErrLoadingDependency"
        /\ NoUnitStarted

\* C5: when only a wanted dependency of a requested unit cannot be resolved
\* or loaded, Start does not crash, returns no error, and starts the
\* requested units and everything they require.
C5_WantedFailureIgnored ==
    (/\ pc # "idle"
     /\ \A y \in Range(names) \cup RequiredClosure : ~Defective(y)
     /\ \E w \in WantedByRequest : Defective(w)) =>
        /\ pc \in {"loop", "returned"}
        /\ err = "nil"
        /\ pc = "returned" =>
               \A u \in Range(names) \cup RequiredClosure : task[u] # "none"

----------------------------------------------------------------------------
(* The Log *)

\* s without its first line: everything through the first terminator
\* removed, nothing left when there is none
AfterFirstTerminator(s) ==
    LET T == {k \in DOMAIN s : s[k] = NL}
    IN  IF T = {} THEN <<>>
        ELSE LET k == CHOOSE q \in T : \A r \in T : q <= r
             IN  [j \in 1..(Len(s) - k) |-> s[k + j]]

LastBytes(s, c) == [j \in 1..c |-> s[Len(s) - c + j]]

\* C6: the content of the buffer is never longer than the capacity C.
C6_ContentWithinCapacity == Len(buf.data) <= BUFFER_SIZE

\* C7: the buffer is empty or starts at the start of a line: at the first
\* byte ever written or right after a line terminator of the written stream.
C7_HeadAtLineStart ==
    \/ buf.data = <<>>
    \/ LET p == Len(stream) - Len(buf.data)
       IN  p = 0 \/ stream[p] = NL

\* C8: a Write of b with len(existing) + len(b) > C and len(b) < C leaves
\* existing ++ b without its first len(existing) + len(b) - C bytes and
\* without what then precedes and includes the next line terminator.
C8_OverflowEvictsLine ==
    (Len(pre.data) + Len(wb) > BUFFER_SIZE /\ Len(wb) < BUFFER_SIZE) =>
        buf.data = AfterFirstTerminator(
                       DropFirst(pre.data \o wb, Len(pre.data) + Len(wb) - BUFFER_SIZE))

\* C9 as stated: a Write of b with len(b) >= C on a non-empty buffer leaves
\* exactly the trailing C bytes of b.
C9_KeepsTrailingBytes ==
    (pre.data # <<>> /\ Len(wb) >= BUFFER_SIZE) => buf.data = LastBytes(wb, BUFFER_SIZE)

\* C9 as amended: a Write of b at least as long as the buffer's current
\* capacity on a non-empty buffer discards the existing content, keeps the
\* capacity, and leaves the trailing capacity-many bytes of b without their
\* first line (nothing when they hold no line terminator).
C9_KeepsTrailingBytesTrimmed ==
    (pre.data # <<>> /\ Len(wb) >= pre.cap) =>
        /\ buf.data = AfterFirstTerminator(LastBytes(wb, pre.cap))
        /\ buf.cap = pre.cap

\* a Write longer than the capacity on a non-empty buffer has left a part,
\* not all, of its trailing bytes
C9_Witness ==
    /\ pre.data # <<>>
    /\ Len(wb) > pre.cap
    /\ buf.data # <<>>
    /\ Len(buf.data) < pre.cap

\* C10: with a buffer whose append and head-discard never fail, no Write
\* returns an error.
C10_WriteNeverFails == werr = "nil"

----------------------------------------------------------------------------
(* Reading the Log *)

FirstBytes(s, k) == [j \in 1..(IF k <= Len(s) THEN k ELSE Len(s)) |-> s[j]]

\* the last Read came right after a Read that returned end-of-stream, with
\* no Write between them, and the reads up to that end-of-stream had
\* together returned exactly the content of the Log
ReadAgainAfterFullPass ==
    /\ rres.k > 0
    /\ prev.eof
    /\ ~prev.wrote
    /\ prev.pass = rres.data

\* C11 as stated: once the Log has been read to end-of-stream, a further
\* Read with no Write in between returns zero bytes and end-of-stream.
C11_NothingAfterEndOfStream ==
    ReadAgainAfterFullPass => (rres.out = <<>> /\ rres.err = "EOF")

\* C11 as amended: once the Log has been read to end-of-stream, a further
\* Read with no Write in between reads the same content again from its
\* first byte, as many bytes as its slice takes, and signals end-of-stream
\* exactly when that is all of it; it returns zero bytes only for an empty Log.
C11_ContentAgainAfterEndOfStream ==
    ReadAgainAfterFullPass =>
        /\ rres.out = FirstBytes(rres.data, rres.k)
        /\ (rres.err = "EOF") <=> (rres.k >= Len(rres.data))

\* a Log read to its end has been read again, with a slice shorter than
\* its content
C11_Witness ==
    /\ ReadAgainAfterFullPass
    /\ Len(rres.data) > rres.k
    /\ rres.out # <<>>
    /\ rres.err = "nil"

\* C12: the Read that follows a Read that returned end-of-stream starts
\* from the content of the buffer as it is then, whatever was written in
\* between, also when the end-of-stream was that of an empty Log.
C12_FreshSnapshotAfterEndOfStream ==
    (rres.k > 0 /\ prev.eof) => rres.out = FirstBytes(rres.data, rres.k)

----------------------------------------------------------------------------
(* Claims about the Daemon of sys.units *)

ActiveUnits == {u \in DOMAIN unitTab : unitTab[u].active = "Active"}

\* C13: when the loop of Isolate has run, the jobs it added to those of the
\* start transaction are stop jobs for exactly the units that are active and
\* had no job in the transaction; the jobs that were there are unchanged.
C13_IsolateStopsActiveOnly ==
    (last.op = "Isolate" /\ last.err = "nil") =>
        LET jobs == tr[last.p].jobs
            added == DOMAIN jobs \ DOMAIN last.j0
        IN  /\ added = ActiveUnits \ DOMAIN last.j0
            /\ \A u \in added : jobs[u] = "stop"
            /\ \A u \in DOMAIN last.j0 : jobs[u] = last.j0[u]

\* the last step was a Get or a Supervise that succeeded for the name
\* the unit it returned is named with
Resolved(exts) ==
    /\ last.op \in {"Get", "Supervise"}
    /\ last.err = "nil"
    /\ last.name[3] \in exts
    /\ unitTab[last.u].name = last.name

\* C14: once a unit has been registered or loaded under a name that ends
\* in .service or .target, the name without the suffix is a key of sys.units
\* for the same unit, and Get of the name and Get of the name without the
\* suffix both succeed and return that unit.
C14_AliasSameIdentity ==
    Resolved(SupportedExts) =>
        LET alias == TrimSuffix(last.name)
            full == sysGet(Reg, last.name, paths, fs)
            short == sysGet(Reg, alias, paths, fs)
        IN  /\ alias \in DOMAIN sysUnits
            /\ sysUnits[alias] = last.u
            /\ full.err = "nil" /\ full.u = last.u
            /\ short.err = "nil" /\ short.u = last.u

\* C15 (taken name): a Supervise of a name that was a key of sys.units, as
\* a name, an alias or a path, fails with ErrExists and leaves sys.units and
\* the units as they were.
\* C15 (free name): a Supervise of a name that was no key succeeds, and
\* Unit(name) then returns the unit it created, which is a new one.
C15_SuperviseExistsOrRegisters ==
    (last.op = "Supervise") =>
        IF last.name \in DOMAIN last.m0
        THEN /\ last.err = "ErrExists"
             /\ last.u = NoUnit
             /\ sysUnits = last.m0
             /\ unitTab = last.t0
        ELSE /\ last.err = "nil"
             /\ Unit(Reg, last.name) = [u |-> last.u, err |-> "nil"]
             /\ last.u = Len(last.t0) + 1
             /\ Len(unitTab) = Len(last.t0) + 1
             /\ \A k \in DOMAIN last.m0 \ {TrimSuffix(last.name)} :
                    k \in DOMAIN sysUnits /\ sysUnits[k] = last.m0[k]

\* a Supervise has failed on a name that is there as the path of a loaded
\* unit, and not as a name or as an alias
C15_Witness ==
    /\ last.op = "Supervise"
    /\ last.err = "ErrExists"
    /\ IsAbs(last.name)
    /\ unitTab[sysUnits[last.name]].name # last.name
    /\ unitTab[sysUnits[last.name]].path = last.name

\* the name of the last Get did not resolve to a loaded unit before it
NotYetLoaded ==
    /\ last.op = "Get"
    /\ last.name \in DOMAIN last.m0 => ~IsLoaded(last.t0[last.m0[last.name]])

NoFileFor(name) ==
    \A i \in 1..Len(candidates(name, paths)) : Open(fs, candidates(name, paths)[i]) = "absent"

Untouched == sysUnits = last.m0 /\ unitTab = last.t0 /\ last.u = NoUnit

\* C16: a Get of a name that is not loaded yet fails with ErrUnknownType
\* when the extension of the name is not a supported one, whatever is on
\* the paths, and with ErrNotFound when the extension is supported and none
\* of its candidate paths holds anything; both leave sys.units and the units
\* as they were and return no unit.
C16_UnknownTypeOrNotFound ==
    NotYetLoaded =>
        /\ ~Supported(last.name) => (last.err = "ErrUnknownType" /\ Untouched)
        /\ (Supported(last.name) /\ NoFileFor(last.name)) =>
               (last.err = "ErrNotFound" /\ Untouched)

\* a Get of a recognized but unsupported name has failed although a file of
\* that name is on the first path
C16_Witness ==
    /\ NotYetLoaded
    /\ last.name = <<"", "a", ".mount">>
    /\ Open(fs, Join(paths[1], last.name)) = "good"
    /\ last.err = "ErrUnknownType"

\* the candidate paths of the name of the last step, in the configured order
LastCandidates == candidates(last.name, paths)
IsFile(st) == st \in {"good", "bad", "badmulti"}
FirstFile ==
    LET I == {i \in 1..Len(LastCandidates) : IsFile(Open(fs, LastCandidates[i]))}
    IN  CHOOSE i \in I : \A j \in I : i <= j

\* the last step was a Get that had to load a relative, supported name for
\* which a readable file that is no directory is on some search path
LoadedFromPaths ==
    /\ NotYetLoaded
    /\ ~IsAbs(last.name)
    /\ Supported(last.name)
    /\ \E i \in 1..Len(LastCandidates) : IsFile(Open(fs, LastCandidates[i]))

\* C17: a Get that loads a relative name takes the unit from the first of
\* the search paths, in their order, that holds a readable file that is no
\* directory, whatever the paths before it hold: nothing, something that
\* cannot be opened, or a directory.
C17_FirstFileWins ==
    LoadedFromPaths =>
        /\ last.u # NoUnit
        /\ unitTab[last.u].path = LastCandidates[FirstFile]

\* the units whose load state the last step changed
Reloaded == {u \in DOMAIN last.t0 : unitTab[u].load # last.t0[u].load}

FirstFound ==
    LET I == {i \in 1..Len(LastCandidates) : Open(fs, LastCandidates[i]) # "absent"}
    IN  IF I = {} THEN 0 ELSE CHOOSE i \in I : \A j \in I : i <= j

\* the last step was a Get that had to load a name whose definition, at the
\* path load takes it from, does not parse
ParseFailed ==
    /\ NotYetLoaded
    /\ Supported(last.name)
    /\ FirstFound # 0
    /\ Open(fs, LastCandidates[FirstFound]) \in {"bad", "badmulti"}

LogBefore(u) == IF u \in DOMAIN last.t0 THEN last.t0[u].log ELSE <<>>
Logged(u) == {unitTab[u].log[i] : i \in (Len(LogBefore(u)) + 1)..Len(unitTab[u].log)}

ParseFailureRecorded ==
    /\ last.u # NoUnit
    /\ unitTab[last.u].load = "Error"
    /\ Logged(last.u) # {}
    /\ Open(fs, LastCandidates[FirstFound]) = "badmulti" => {"e1", "e2"} \subseteq Logged(last.u)

\* C19: when the definition of a unit fails to parse, Get leaves the unit
\* in load state Error, has written the error, each entry of a MultiError,
\* to the unit's Log, and returns no error.
C19_ParseFailureAbsorbed ==
    ParseFailed => (ParseFailureRecorded /\ last.err = "nil")

\* C20: a step in which an assignment to sys.units is executed is the step
\* of a caller that holds the mutex, and no caller holds the mutex while its
\* transaction's Run executes.
C20_MapWrittenUnderMutex ==
    /\ last.w => (last.held # NoCaller /\ last.held = last.p)
    /\ \A p \in Callers : cpc[p] = "Run" => mutex # p


----------------------------------------------------------------------------
(* The chain of the cycle error *)

\* Start has returned the cycle error of order
CycleReported == pc = "returned" /\ err = "ErrDependencyCycle"

\* the unit whose second visit ended the traversal
ReEntered == chain[Len(chain)]

\* u and v lie on one declared cycle
SameCycle(u, v) == u \in ReachableFrom(v) /\ v \in ReachableFrom(u)

\* C21: the chain reported with a cycle starts at the re-entered unit and
\* leads back to it: it names only units that lie on the cycle.
C21_ChainIsTheCycle ==
    CycleReported =>
        /\ chain[1] = ReEntered
        /\ \A i \in DOMAIN chain : SameCycle(chain[i], ReEntered)

\* C21 as the code has it: the chain starts at the unit order() was
\* traversing from, every unit in it is followed by a unit that must run
\* before it, and it ends at the re-entered unit, which it names once before;
\* the units from that first mention on are the cycle, and no other unit is
\* named twice.
C21_ChainLeadsIntoCycle ==
    CycleReported =>
        /\ Len(chain) >= 2
        /\ chain[1] \in DOMAIN units
        /\ \A i \in 1..(Len(chain) - 1) : Edge(chain[i + 1], chain[i])
        /\ \E i \in 1..(Len(chain) - 1) :
               /\ chain[i] = ReEntered
               /\ \A j \in i..Len(chain) : SameCycle(chain[j], ReEntered)
        /\ \A i, j \in 1..(Len(chain) - 1) : i # j => chain[i] # chain[j]

\* a cycle was reported from a unit that only leads into it
C21_Witness ==
    /\ CycleReported
    /\ Len(chain) >= 3
    /\ chain[1] # ReEntered
    /\ ~SameCycle(chain[1], ReEntered)


----------------------------------------------------------------------------
(* The unit set of a start request *)

\* loadDeps has returned a unit set
LoadDepsReturned == pc # "idle" /\ err # "ErrLoadingDependency"

\* the units a definition names in Requires or Wants
DeclaredDeps(u) == Range(Requires(u)) \cup Wants(u)

\* C22: the unit set built for a start request holds every requested unit
\* and, for every unit in it, every unit that unit names in Requires or
\* Wants and that can be resolved.
C22_UnitSetDependencyClosed ==
    LoadDepsReturned =>
        /\ Range(names) \subseteq DOMAIN units
        /\ \A u \in DOMAIN units :
               \A d \in DeclaredDeps(u) : ~Defective(d) => d \in DOMAIN units


----------------------------------------------------------------------------
(* Writing one line *)

\* b is one complete line: its only terminator is its last byte
IsLine(b) == b # <<>> /\ \A k \in DOMAIN b : (b[k] = NL) <=> (k = Len(b))

\* s ends with b
EndsWith(s, b) == Len(s) >= Len(b) /\ LastBytes(s, Len(b)) = b

\* C24: a Write of one complete line of at most C bytes returns no error
\* and leaves a buffer whose content ends with that whole line, whatever
\* the buffer held before.
C24_LineWrittenWhole ==
    (IsLine(wb) /\ Len(wb) <= BUFFER_SIZE) =>
        /\ werr = "nil"
        /\ EndsWith(buf.data, wb)


----------------------------------------------------------------------------
(* Keys of sys.units over time *)

\* every key the map held before the last operation still leads to the
\* unit it led to
KeysKept == \A k \in DOMAIN last.m0 : k \in DOMAIN sysUnits /\ sysUnits[k] = last.m0[k]

\* no two units were loaded from one file
OneUnitPerFile ==
    \A u, v \in DOMAIN unitTab :
        (unitTab[u].path # NoName /\ unitTab[u].path = unitTab[v].path) => u = v

\* C23: over Supervise, Get and load, a key of sys.units (a name, an alias
\* or a path) that leads to a unit keeps leading to that unit, and no
\* definition file belongs to two units.
C23_KeysKeepIdentity == KeysKept /\ OneUnitPerFile

====
